---------------------------- MODULE Spec2Model ----------------------------
(***************************************************************************)
(* The appointment engine of the clinic receptionist (src/main.py) and the *)
(* calendar bridge it posts to (src/mcp_server.py).                        *)
(*                                                                         *)
(* Each session is one DoctorReceptionist object in its own worker         *)
(* process: it owns a cache (self.appointments) and shares the Supabase    *)
(* table and the Google calendar with the other session.  A handler is     *)
(* cut at its network calls: every store call and every calendar call is   *)
(* one atomic step, the pure work between two calls belongs to the step    *)
(* that follows it.                                                        *)
(***************************************************************************)
EXTENDS Integers, Sequences, FiniteSets, TLC

(***************************************************************************)
(* Bounds of the model.                                                    *)
(***************************************************************************)
\* rows the table may hold before further inserts are not attempted
MaxAppts == 2
\* events the calendar creates before create-event only fails
MaxEvents == 1
\* events the calendar creates when no call fails
MaxCalmEvents == 3

None == "None"

(***************************************************************************)
(* Strings.  A string is an atom; str.lower(), str.upper(), str.strip()    *)
(* and str.title() are given on the strings the model uses as inputs.      *)
(***************************************************************************)
strip(str) ==
    CASE str = "Lahore " -> "Lahore"
      [] str = " saturday" -> "saturday"
      [] str = " apt1001" -> "apt1001"
      [] str = "10:00 AM - 11:00 AM " -> "10:00 AM - 11:00 AM"
      [] str = "lahore " -> "lahore"
      [] str = " " -> ""
      [] OTHER -> str

lower(str) ==
    CASE str = "Lahore" -> "lahore"
      [] str = "Lahore " -> "lahore "
      [] str = "Sunday" -> "sunday"
      [] str = "Ali" -> "ali"
      [] str = "ALI" -> "ali"
      [] str = "Sara" -> "sara"
      [] OTHER -> str

upper(str) ==
    CASE str = "apt1001" -> "APT1001"
      [] str = "apt1002" -> "APT1002"
      [] OTHER -> str

title(str) ==
    CASE str = "sialkot" -> "Sialkot"
      [] str = "lahore" -> "Lahore"
      [] str = "monday" -> "Monday"
      [] str = "tuesday" -> "Tuesday"
      [] str = "wednesday" -> "Wednesday"
      [] str = "thursday" -> "Thursday"
      [] str = "friday" -> "Friday"
      [] str = "saturday" -> "Saturday"
      [] str = "sunday" -> "Sunday"
      [] OTHER -> str

(***************************************************************************)
(* Calendar dates: datetime.date as [y, m, d], with the proleptic          *)
(* Gregorian ordinal (date.toordinal) and date.weekday (Monday = 0).       *)
(***************************************************************************)
Date(y, m, d) == [y |-> y, m |-> m, d |-> d]

\* the value of a date variable that holds None
NoDate == Date(0, 0, 0)

is_leap(y) == y % 4 = 0 /\ (y % 100 # 0 \/ y % 400 = 0)

days_in_month(y, m) ==
    IF m = 2 THEN (IF is_leap(y) THEN 29 ELSE 28)
    ELSE IF m \in {4, 6, 9, 11} THEN 30 ELSE 31

RECURSIVE days_before_month(_, _)
days_before_month(y, m) ==
    IF m = 1 THEN 0 ELSE days_before_month(y, m - 1) + days_in_month(y, m - 1)

days_before_year(y) ==
    (y - 1) * 365 + ((y - 1) \div 4) - ((y - 1) \div 100) + ((y - 1) \div 400)

valid_ymd(y, m, d) ==
    /\ y \in 1..9999
    /\ m \in 1..12
    /\ d \in 1..days_in_month(y, m)

toordinal(dt) == days_before_year(dt.y) + days_before_month(dt.y, dt.m) + dt.d

\* date + timedelta(days): walk forward one calendar day at a time
next_day(dt) ==
    IF dt.d < days_in_month(dt.y, dt.m) THEN Date(dt.y, dt.m, dt.d + 1)
    ELSE IF dt.m < 12 THEN Date(dt.y, dt.m + 1, 1)
    ELSE Date(dt.y + 1, 1, 1)

RECURSIVE add_days(_, _)
add_days(dt, n) == IF n = 0 THEN dt ELSE add_days(next_day(dt), n - 1)

weekday(dt) == (toordinal(dt) + 6) % 7

WeekdayNames ==
    <<"monday", "tuesday", "wednesday", "thursday", "friday", "saturday", "sunday">>

\* booking_date.strftime("%A").lower()
weekday_name(dt) == WeekdayNames[weekday(dt) + 1]

(***************************************************************************)
(* Day strings.  A day string is read as Python reads it: the text of an   *)
(* ISO date, of a day-month-year date with the month's full or short       *)
(* name, of a month-day-year date, or a bare word.                         *)
(***************************************************************************)
DayStr(fmt, y, m, d, w) == [fmt |-> fmt, y |-> y, m |-> m, d |-> d, w |-> w]
Iso(y, m, d) == DayStr("Y-m-d", y, m, d, "")
Word(w) == DayStr("word", 0, 0, 0, w)
isoformat(dt) == Iso(dt.y, dt.m, dt.d)

\* a slip: today does not count, the same weekday is a week away
next_weekday_date_after_today(target_weekday, from_date) ==
    add_days(from_date, ((target_weekday - weekday(from_date) + 6) % 7) + 1)

next_weekday_date(target_weekday, from_date) ==
    LET days_ahead == (target_weekday - weekday(from_date) + 7) % 7
    IN  IF days_ahead = 0 THEN from_date ELSE add_days(from_date, days_ahead)

weekdays(name) == CHOOSE i \in 0..6 : WeekdayNames[i + 1] = name

parse_day_to_date(day_str, from_today) ==
    IF day_str.fmt \in {"Y-m-d", "d B Y", "d b Y"}
    THEN IF valid_ymd(day_str.y, day_str.m, day_str.d)
         THEN Date(day_str.y, day_str.m, day_str.d)
         ELSE NoDate
    ELSE IF day_str.fmt = "word"
              /\ \E i \in 1..7 : WeekdayNames[i] = lower(strip(day_str.w))
         THEN next_weekday_date(weekdays(lower(strip(day_str.w))), from_today)
         ELSE NoDate

(***************************************************************************)
(* Schedule rules and the canonical slots.                                 *)
(***************************************************************************)
time_slots ==
    << "10:00 AM - 11:00 AM",
       "11:00 AM - 12:00 PM",
       "12:00 PM - 01:00 PM",
       "01:00 PM - 02:00 PM",
       "04:00 PM - 05:00 PM",
       "05:00 PM - 06:00 PM",
       "06:00 PM - 07:00 PM",
       "07:00 PM - 08:00 PM" >>

Range(seq) == {seq[i] : i \in DOMAIN seq}

\* a slip: Wednesday is left out of the Sialkot days
schedule_without_wednesday ==
    [sialkot |-> {"monday", "tuesday"},
     lahore |-> {"thursday", "friday", "saturday"}]

schedule ==
    [sialkot |-> {"monday", "tuesday", "wednesday"},
     lahore |-> {"thursday", "friday", "saturday"}]

\* a slip: the requested branch is offered as its own alternative
alternate_branch_same(city) == city

alternate_branch(city) == IF city = "sialkot" THEN "lahore" ELSE "sialkot"

(***************************************************************************)
(* State.                                                                  *)
(***************************************************************************)
Sessions == {1, 2}

VARIABLES
    slot_unique,   \* whether the table's schema has UNIQUE (city, date, slot)
    today,         \* date.today()
    store,         \* the rows of the Supabase table "appointments", oldest first
    events,        \* the ids of the events that exist in the Google calendar
    next_event,    \* the calendar's supply of fresh event ids
    appointments,  \* appointments[s]: self.appointments, the session's cache
    pc,            \* pc[s]: where session s stands in its handler
    frame,         \* frame[s]: the handler's local variables
    req,           \* req[s]: the arguments of the session's current or last call
    result,        \* result[s]: what the last call returned
    log,           \* log[s]: the store and calendar calls of the current or last call
    before,        \* before[s]: the table and the calendar when the call began
    actor          \* the session that took the last step

vars == <<slot_unique, today, store, events, next_event, appointments,
          pc, frame, req, result, log, before, actor>>

NoDay == Word("")

Row(id, patient_name, patient_id, city, date, slot, notes, ev, link) ==
    [id |-> id, patient_name |-> patient_name, patient_id |-> patient_id,
     city |-> city, date |-> date, slot |-> slot, notes |-> notes,
     calendar_event_id |-> ev, calendar_link |-> link]

NoRow == Row(None, None, None, None, NoDay, None, None, None, None)

Req(op, patient_name, city, day, slot, notes, appointment_id, date) ==
    [op |-> op, patient_name |-> patient_name, city |-> city, day |-> day,
     slot |-> slot, notes |-> notes, appointment_id |-> appointment_id,
     date |-> date]

NoReq == Req(None, None, None, NoDay, None, None, None, NoDay)

\* A returned message: its kind and the values it is formatted from.
Result(kind, id, patient_name, city, date, slot, weekday_, alternate, slots) ==
    [kind |-> kind, id |-> id, patient_name |-> patient_name, city |-> city,
     date |-> date, slot |-> slot, weekday |-> weekday_, alternate |-> alternate,
     slots |-> slots]

Msg(kind) == Result(kind, None, None, None, NoDay, None, None, None, <<>>)

NoData == [eventId |-> None, htmlLink |-> None]

Frame(appointment, data, deleted) ==
    [appointment |-> appointment, data |-> data, deleted |-> deleted]

NoFrame == Frame(NoRow, NoData, FALSE)

Snapshot(rows, evs) == [store |-> rows, events |-> evs]

NoSnapshot == Snapshot(<<>>, {})

(***************************************************************************)
(* The record store: what the Supabase calls do to the table.              *)
(***************************************************************************)
\* the constraints of the table: id is its primary key; (city, date, slot)
\* is unique when the schema says so
violates_unique(rows, appointment, unique_slots) ==
    \E i \in DOMAIN rows :
        \/ rows[i].id = appointment.id
        \/ /\ unique_slots
           /\ rows[i].city = appointment.city
           /\ rows[i].date = appointment.date
           /\ rows[i].slot = appointment.slot

\* a slip: the helper hands back the appointment when the insert raised
_insert_appointment_db_swallowing(rows, appointment, unique_slots, reachable) ==
    IF reachable /\ ~violates_unique(rows, appointment, unique_slots)
    THEN [ok |-> TRUE, rows |-> Append(rows, appointment), call |-> "insert"]
    ELSE [ok |-> TRUE, rows |-> rows,
          call |-> IF reachable THEN "insert_rejected" ELSE "insert_failed"]

\* .insert(appointment): the row is appended; an unreachable store and a
\* violated constraint both raise, and the helper then returns None
_insert_appointment_db(rows, appointment, unique_slots, reachable) ==
    IF ~reachable
    THEN [ok |-> FALSE, rows |-> rows, call |-> "insert_failed"]
    ELSE IF violates_unique(rows, appointment, unique_slots)
    THEN [ok |-> FALSE, rows |-> rows, call |-> "insert_rejected"]
    ELSE [ok |-> TRUE, rows |-> Append(rows, appointment), call |-> "insert"]

\* .select("*").eq("id", appointment_id): data[0], or None
_find_appointment_db_by_id(rows, appointment_id) ==
    LET eq_id(r) == r.id = appointment_id
        data == SelectSeq(rows, eq_id)
    IN  IF data # <<>> THEN data[1] ELSE NoRow

\* .select("*").ilike("patient_name", patient_name).eq("date", date_str)
_find_appointment_db_by_patient_and_date(rows, patient_name, date_str) ==
    LET matches(r) == lower(r.patient_name) = lower(patient_name) /\ r.date = date_str
        data == SelectSeq(rows, matches)
    IN  IF data # <<>> THEN data[1] ELSE NoRow

\* .delete().eq("id", appointment_id)
_delete_appointment_db(rows, appointment_id) ==
    LET other(r) == r.id # appointment_id
    IN  SelectSeq(rows, other)

\* .update({"calendar_link": link}).eq("id", id)
update_calendar_link(rows, id, link) ==
    [i \in DOMAIN rows |->
        IF rows[i].id = id THEN [rows[i] EXCEPT !.calendar_link = link] ELSE rows[i]]

\* .update({"calendar_event_id": ev}).eq("id", id)
update_calendar_event_id(rows, id, ev) ==
    [i \in DOMAIN rows |->
        IF rows[i].id = id THEN [rows[i] EXCEPT !.calendar_event_id = ev] ELSE rows[i]]

(***************************************************************************)
(* check_availability                                                      *)
(***************************************************************************)
\* the text of a day string after .lower().strip(): a word, or a date's text
day_text(day) == IF day.fmt = "word" THEN strip(lower(day.w)) ELSE "<date>"

check_availability(city_in, day) ==
    LET city == strip(lower(city_in))
        day_in == day_text(day)
    IN  IF day_in = "sunday" THEN Msg("avail_sunday_leave")
        ELSE IF city \notin DOMAIN schedule THEN Msg("avail_unsupported_city")
        ELSE IF day_in \in schedule[city]
             THEN Result("avail_available", None, None, title(city), NoDay, None,
                         title(day_in), None, time_slots)
        ELSE IF day_in \in schedule[alternate_branch(city)]
             THEN Result("avail_other_branch", None, None, title(city), NoDay, None,
                         title(day_in), title(alternate_branch(city)), <<>>)
        ELSE Result("avail_not_available", None, None, title(city), NoDay, None,
                    title(day_in), None, <<>>)

(***************************************************************************)
(* book_appointment, up to the insert                                      *)
(***************************************************************************)
\* a two-digit field of strftime: "%I" and "%M" pad with a zero
pad2(n) == IF n < 10 THEN "0" \o ToString(n) ELSE ToString(n)

Meridiems == {"AM", "PM", "am", "pm"}

\* a time of day is its minute since midnight; the time "%I:%M %p" denotes
time_of(hour12, minute, meridiem) ==
    ((hour12 % 12) + (IF meridiem \in {"PM", "pm"} THEN 12 ELSE 0)) * 60 + minute

\* the texts "%I:%M %p" accepts for an hour: with and without the leading zero
hour_texts(hour12) == {pad2(hour12), ToString(hour12)}

NoTime == -1

\* a slip: the meridiem is read and dropped, every time is a morning time
strptime_I_M_p_ignoring_meridiem(text) ==
    IF \E h \in 1..12, m \in {0, 30}, p \in Meridiems :
          \E ht \in hour_texts(h) : text = ht \o ":" \o pad2(m) \o " " \o p
    THEN LET hm == CHOOSE hm \in (1..12) \X {0, 30} :
                     \E p \in Meridiems : \E ht \in hour_texts(hm[1]) :
                         text = ht \o ":" \o pad2(hm[2]) \o " " \o p
         IN  time_of(hm[1], hm[2], "AM")
    ELSE NoTime

\* datetime.strptime(text, "%I:%M %p").time(), NoTime when it raises
strptime_I_M_p(text) ==
    IF \E h \in 1..12, m \in {0, 30}, p \in Meridiems :
          \E ht \in hour_texts(h) : text = ht \o ":" \o pad2(m) \o " " \o p
    THEN LET hmp == CHOOSE hmp \in (1..12) \X {0, 30} \X Meridiems :
                      \E ht \in hour_texts(hmp[1]) :
                          text = ht \o ":" \o pad2(hmp[2]) \o " " \o hmp[3]
         IN  time_of(hmp[1], hmp[2], hmp[3])
    ELSE NoTime

\* the texts of a time of day that the slot strings of the model are written
\* with: the ends of the canonical slots, and other spellings and other times
TimeTexts ==
    {pad2(h) \o ":00 " \o p :
        h \in 1..12, p \in {"AM", "PM"}}
    \cup {"4:00 PM", "5:00 PM", "04:00 pm", "05:00 pm", "04:30 PM", "05:30 PM",
          "4 PM", "16:00"}

\* slot_str.split("-") with each part stripped, for every text of two
\* times around one dash
split_dash ==
    LET texts == {a \o sep \o b : a \in TimeTexts, b \in TimeTexts, sep \in {" - ", "-"}}
    IN  [text \in texts |->
            CHOOSE parts \in TimeTexts \X TimeTexts :
                \E sep \in {" - ", "-"} : text = parts[1] \o sep \o parts[2]]

\* the time each text denotes
times == [text \in TimeTexts |-> strptime_I_M_p(text)]

\* parse_slot_times: (start, end), or None (<<>>) unless the text is two
\* "%I:%M %p" times around one "-"
parse_slot_times(slot_str) ==
    IF strip(slot_str) \notin DOMAIN split_dash THEN <<>>
    ELSE LET parts == split_dash[strip(slot_str)]
         IN  IF times[parts[1]] = NoTime \/ times[parts[2]] = NoTime THEN <<>>
             ELSE <<times[parts[1]], times[parts[2]]>>

\* a slip: Sunday is refused by its name only, not by the parsed date
book_validate_sunday_by_name(city_in, day, slot_in, from_today) ==
    LET city == strip(lower(city_in))
        day_input == [day EXCEPT !.w = strip(@)]
        slot == strip(slot_in)
        booking_date == parse_day_to_date(day_input, from_today)
    IN  IF day_input.fmt = "word" /\ lower(day_input.w) = "sunday"
        THEN Msg("book_sunday_leave")
        ELSE IF city \notin DOMAIN schedule THEN Msg("book_unsupported_city")
        ELSE IF booking_date = NoDate THEN Msg("book_day_not_understood")
        ELSE IF weekday_name(booking_date) \notin schedule[city]
             THEN Result("book_other_branch", None, None, title(city), NoDay, None,
                         title(weekday_name(booking_date)),
                         title(alternate_branch(city)), <<>>)
        ELSE IF slot \notin Range(time_slots)
             THEN Result("book_invalid_slot", None, None, None, NoDay, None, None,
                         None, time_slots)
        ELSE IF parse_slot_times(slot) = <<>> THEN Msg("book_invalid_slot_format")
        ELSE Msg("ok")

\* a slip: the slot is accepted by the times it parses to, not by its text
book_validate_slot_by_value(city_in, day, slot_in, from_today) ==
    LET city == strip(lower(city_in))
        day_input == [day EXCEPT !.w = strip(@)]
        slot == strip(slot_in)
        booking_date == parse_day_to_date(day_input, from_today)
    IN  IF day_input.fmt = "word" /\ lower(day_input.w) = "sunday"
        THEN Msg("book_sunday_leave")
        ELSE IF city \notin DOMAIN schedule THEN Msg("book_unsupported_city")
        ELSE IF booking_date = NoDate THEN Msg("book_day_not_understood")
        ELSE IF weekday_name(booking_date) = "sunday" THEN Msg("book_sunday_leave")
        ELSE IF weekday_name(booking_date) \notin schedule[city]
             THEN Result("book_other_branch", None, None, title(city), NoDay, None,
                         title(weekday_name(booking_date)),
                         title(alternate_branch(city)), <<>>)
        ELSE IF parse_slot_times(slot) \notin {parse_slot_times(text) : text \in Range(time_slots)}
             THEN Result("book_invalid_slot", None, None, None, NoDay, None, None,
                         None, time_slots)
        ELSE Msg("ok")

\* the message book_appointment returns before it builds the appointment, or
\* Msg("ok") when every check passes
book_validate(city_in, day, slot_in, from_today) ==
    LET city == strip(lower(city_in))
        day_input == [day EXCEPT !.w = strip(@)]
        slot == strip(slot_in)
        booking_date == parse_day_to_date(day_input, from_today)
    IN  IF day_input.fmt = "word" /\ lower(day_input.w) = "sunday"
        THEN Msg("book_sunday_leave")
        ELSE IF city \notin DOMAIN schedule THEN Msg("book_unsupported_city")
        ELSE IF booking_date = NoDate THEN Msg("book_day_not_understood")
        ELSE IF weekday_name(booking_date) = "sunday" THEN Msg("book_sunday_leave")
        ELSE IF weekday_name(booking_date) \notin schedule[city]
             THEN Result("book_other_branch", None, None, title(city), NoDay, None,
                         title(weekday_name(booking_date)),
                         title(alternate_branch(city)), <<>>)
        ELSE IF slot \notin Range(time_slots)
             THEN Result("book_invalid_slot", None, None, None, NoDay, None, None,
                         None, time_slots)
        ELSE IF parse_slot_times(slot) = <<>> THEN Msg("book_invalid_slot_format")
        ELSE Msg("ok")

\* f"APT{len(self.appointments) + 1001}"
apt_id(cache) == "APT" \o ToString(Len(cache) + 1001)

\* f"PID{len(self.appointments) + 5001}"
pid(cache) == "PID" \o ToString(Len(cache) + 5001)

\* the appointment dict of a request that passed book_validate
build_appointment(cache, patient_name, city_in, day, slot_in, notes, from_today) ==
    Row(apt_id(cache), patient_name, pid(cache),
        title(strip(lower(city_in))),
        isoformat(parse_day_to_date([day EXCEPT !.w = strip(@)], from_today)),
        strip(slot_in), notes, None, None)

confirmed(appointment) ==
    Result("book_confirmed", appointment.id, appointment.patient_name,
           appointment.city, appointment.date, appointment.slot, None, None, <<>>)

(***************************************************************************)
(* Inputs.                                                                 *)
(***************************************************************************)
WindowStart == Date(2025, 11, 8)

\* a Saturday, a Sunday and a Monday
Window == {add_days(WindowStart, i) : i \in 0..2}

CityInputs == {"sialkot", "Lahore ", "karachi"}

DayInputs ==
    {isoformat(dt) : dt \in Window}
        \cup {Iso(2025, 11, 31),
              DayStr("d B Y", 2025, 11, 10, ""),
              DayStr("B d, Y", 2025, 11, 10, ""),
              Word("Sunday"), Word(" saturday"), Word("tomorrow")}

SlotInputs ==
    {"10:00 AM - 11:00 AM ", "04:00 PM - 05:00 PM", "4 PM", "4:00 PM - 5:00 PM"}

BookArgs(patient_name, city, day, slot) ==
    [patient_name |-> patient_name, city |-> city, day |-> day, slot |-> slot,
     notes |-> ""]

\* every city with every day, and every slot text on one open day
BookInputs ==
    {BookArgs("Ali", city, day, "04:00 PM - 05:00 PM") :
        city \in CityInputs, day \in DayInputs}
    \cup {BookArgs("Ali", "sialkot", Iso(2025, 11, 10), slot) : slot \in SlotInputs}

CheckArgs(city, day) == [city |-> city, day |-> day]

CheckInputs ==
    {CheckArgs(city, day) :
        city \in CityInputs,
        day \in {Word("Sunday"), Word("monday"), Word(" saturday"), Word("tomorrow"),
                 Iso(2025, 11, 10)}}

CancelArgs(appointment_id, patient_name, date) ==
    [appointment_id |-> appointment_id, patient_name |-> patient_name, date |-> date]

\* by id alone, by patient and date alone, and an id with a patient and date
CancelInputs ==
    {CancelArgs(id, "", NoDay) : id \in {"", "APT1001", " apt1001", "APT1002", "APT9999"}}
    \cup {CancelArgs("", patient_name, date) :
            patient_name \in {"ALI", "Sara"},
            date \in {NoDay, Iso(2025, 11, 10), DayStr("d B Y", 2025, 11, 10, "")}}
    \cup {CancelArgs("APT9999", "ALI", Iso(2025, 11, 10))}

(***************************************************************************)
(* Init: both sessions constructed against an empty table.                 *)
(***************************************************************************)
Init ==
    /\ slot_unique \in BOOLEAN
    /\ today = WindowStart
    /\ store = <<>>
    /\ events = {}
    /\ next_event = 1
    /\ appointments = [s \in Sessions |-> <<>>]
    /\ pc = [s \in Sessions |-> "idle"]
    /\ frame = [s \in Sessions |-> NoFrame]
    /\ req = [s \in Sessions |-> NoReq]
    /\ result = [s \in Sessions |-> Msg(None)]
    /\ log = [s \in Sessions |-> <<>>]
    /\ before = [s \in Sessions |-> NoSnapshot]
    /\ actor = 1

\* _load_appointments_from_db: the rows read (each kept as its id, the cache
\* is only ever counted), or [] when the select raises
_load_appointments_from_db(rows, ok) ==
    IF ok THEN [i \in DOMAIN rows |-> rows[i].id] ELSE <<>>

\* __init__: a new agent object loads its cache
Construct(s, oks) ==
    /\ pc[s] = "idle"
    /\ \E ok \in oks :
        appointments' = [appointments EXCEPT ![s] = _load_appointments_from_db(store, ok)]
    /\ actor' = s
    /\ UNCHANGED <<slot_unique, today, store, events, next_event, pc, frame, req, result, log, before>>

\* the handler's return value goes to the caller; the session is free again
Reply(s) ==
    /\ pc[s] = "returned"
    /\ pc' = [pc EXCEPT ![s] = "idle"]
    /\ req' = [req EXCEPT ![s] = NoReq]
    /\ result' = [result EXCEPT ![s] = Msg(None)]
    /\ log' = [log EXCEPT ![s] = <<>>]
    /\ before' = [before EXCEPT ![s] = NoSnapshot]
    /\ actor' = s
    /\ UNCHANGED <<slot_unique, today, store, events, next_event, appointments, frame>>

CheckAvailability(s, city, day) ==
    /\ pc[s] = "idle"
    /\ req' = [req EXCEPT ![s] = Req("check_availability", None, city, day, None, None, None, NoDay)]
    /\ result' = [result EXCEPT ![s] = check_availability(city, day)]
    /\ log' = [log EXCEPT ![s] = <<>>]
    /\ pc' = [pc EXCEPT ![s] = "returned"]
    /\ before' = [before EXCEPT ![s] = Snapshot(store, events)]
    /\ actor' = s
    /\ UNCHANGED <<slot_unique, today, store, events, next_event, appointments, frame>>

(***************************************************************************)
(* The parsers, called on their own.                                       *)
(***************************************************************************)
ParseDayToDate(s, day_str) ==
    /\ pc[s] = "idle"
    /\ req' = [req EXCEPT ![s] = Req("parse_day_to_date", None, None, day_str, None, None, None, NoDay)]
    /\ result' = [result EXCEPT ![s] =
                    LET parsed == parse_day_to_date(day_str, today)
                    IN  IF parsed = NoDate THEN Msg("none")
                        ELSE Result("date", None, None, None, isoformat(parsed), None,
                                    weekday_name(parsed), None, <<>>)]
    /\ log' = [log EXCEPT ![s] = <<>>]
    /\ pc' = [pc EXCEPT ![s] = "returned"]
    /\ before' = [before EXCEPT ![s] = Snapshot(store, events)]
    /\ actor' = s
    /\ UNCHANGED <<slot_unique, today, store, events, next_event, appointments, frame>>

ParseSlotTimes(s, slot_str) ==
    /\ pc[s] = "idle"
    /\ req' = [req EXCEPT ![s] = Req("parse_slot_times", None, None, NoDay, slot_str, None, None, NoDay)]
    /\ result' = [result EXCEPT ![s] =
                    LET parsed == parse_slot_times(slot_str)
                    IN  IF parsed = <<>> THEN Msg("none")
                        ELSE Result("times", None, None, None, NoDay, None, None, None, parsed)]
    /\ log' = [log EXCEPT ![s] = <<>>]
    /\ pc' = [pc EXCEPT ![s] = "returned"]
    /\ before' = [before EXCEPT ![s] = Snapshot(store, events)]
    /\ actor' = s
    /\ UNCHANGED <<slot_unique, today, store, events, next_event, appointments, frame>>

(***************************************************************************)
(* book_appointment                                                        *)
(***************************************************************************)
\* lines 235-292: the checks, then the insert
Book(s, patient_name, city, day, slot, notes, oks) ==
    /\ pc[s] = "idle"
    /\ req' = [req EXCEPT ![s] = Req("book_appointment", patient_name, city, day, slot, notes, None, NoDay)]
    /\ before' = [before EXCEPT ![s] = Snapshot(store, events)]
    /\ actor' = s
    /\ LET v == book_validate(city, day, slot, today)
           appointment == build_appointment(appointments[s], patient_name, city, day,
                                            slot, notes, today)
       IN  IF v.kind # "ok"
           THEN /\ result' = [result EXCEPT ![s] = v]
                /\ log' = [log EXCEPT ![s] = <<>>]
                /\ pc' = [pc EXCEPT ![s] = "returned"]
                /\ UNCHANGED <<store, frame>>
           ELSE /\ Len(store) < MaxAppts
                /\ \E reachable \in oks :
                    LET inserted == _insert_appointment_db(store, appointment, slot_unique, reachable)
                    IN  IF inserted.ok
                        THEN /\ store' = inserted.rows
                             /\ pc' = [pc EXCEPT ![s] = "book_reload"]
                             /\ frame' = [frame EXCEPT ![s] = Frame(appointment, NoData, FALSE)]
                             /\ result' = [result EXCEPT ![s] = Msg("running")]
                             /\ log' = [log EXCEPT ![s] = <<inserted.call>>]
                        ELSE /\ result' = [result EXCEPT ![s] = Msg("book_failed_to_save")]
                             /\ log' = [log EXCEPT ![s] = <<inserted.call>>]
                             /\ pc' = [pc EXCEPT ![s] = "returned"]
                             /\ UNCHANGED <<store, frame>>
    /\ UNCHANGED <<slot_unique, today, events, next_event, appointments>>

\* line 295: keep the cache synced
BookReload(s, oks) ==
    /\ pc[s] = "book_reload"
    /\ \E ok \in oks :
        /\ appointments' = [appointments EXCEPT ![s] = _load_appointments_from_db(store, ok)]
        /\ log' = [log EXCEPT ![s] = Append(@, IF ok THEN "select_all" ELSE "select_all_failed")]
    /\ pc' = [pc EXCEPT ![s] = "book_post"]
    /\ actor' = s
    /\ UNCHANGED <<slot_unique, today, store, events, next_event, frame, req, result, before>>

event_id(n) == "evt" \o ToString(n)
html_link(n) == "https://calendar/" \o ToString(n)

CreateFailures == {"exception", "non_2xx", "malformed_body"}

\* a slip: a failed create-event call ends the booking with an error
BookPost_blocking(s, failures, supply) ==
    /\ pc[s] = "book_post"
    /\ \/ /\ next_event <= supply
          /\ events' = events \cup {event_id(next_event)}
          /\ next_event' = next_event + 1
          /\ frame' = [frame EXCEPT ![s].data =
                          [eventId |-> event_id(next_event), htmlLink |-> html_link(next_event)]]
          /\ pc' = [pc EXCEPT ![s] = "book_update_link"]
          /\ log' = [log EXCEPT ![s] = Append(@, "create_event")]
          /\ UNCHANGED result
       \/ /\ \E failure \in failures :
                log' = [log EXCEPT ![s] = Append(@, "create_event_" \o failure)]
          /\ pc' = [pc EXCEPT ![s] = "returned"]
          /\ result' = [result EXCEPT ![s] = Msg("book_calendar_failed")]
          /\ frame' = [frame EXCEPT ![s] = NoFrame]
          /\ UNCHANGED <<events, next_event>>
    /\ actor' = s
    /\ UNCHANGED <<slot_unique, today, store, appointments, req, before>>

\* a slip: a failed create-event call is tried again
BookPost_retrying(s, failures, supply) ==
    /\ pc[s] = "book_post"
    /\ \/ /\ next_event <= supply
          /\ events' = events \cup {event_id(next_event)}
          /\ next_event' = next_event + 1
          /\ frame' = [frame EXCEPT ![s].data =
                          [eventId |-> event_id(next_event), htmlLink |-> html_link(next_event)]]
          /\ pc' = [pc EXCEPT ![s] = "book_update_link"]
          /\ log' = [log EXCEPT ![s] = Append(@, "create_event")]
       \/ /\ \E failure \in failures :
                log' = [log EXCEPT ![s] = Append(@, "create_event_" \o failure)]
          /\ pc' = [pc EXCEPT ![s] = IF Len(log[s]) < 3 THEN "book_post" ELSE "book_reload2"]
          /\ UNCHANGED <<events, next_event, frame>>
    /\ actor' = s
    /\ UNCHANGED <<slot_unique, today, store, appointments, req, result, before>>

\* line 309: requests.post(GOOGLE_MCP_URL, ...), served by create_event
BookPost(s, failures, supply) ==
    /\ pc[s] = "book_post"
    /\ \/ /\ next_event <= supply
          /\ events' = events \cup {event_id(next_event)}
          /\ next_event' = next_event + 1
          /\ frame' = [frame EXCEPT ![s].data =
                          [eventId |-> event_id(next_event), htmlLink |-> html_link(next_event)]]
          /\ pc' = [pc EXCEPT ![s] = "book_update_link"]
          /\ log' = [log EXCEPT ![s] = Append(@, "create_event")]
       \/ /\ \E failure \in failures :
                log' = [log EXCEPT ![s] = Append(@, "create_event_" \o failure)]
          /\ pc' = [pc EXCEPT ![s] = "book_reload2"]
          /\ UNCHANGED <<events, next_event, frame>>
    /\ actor' = s
    /\ UNCHANGED <<slot_unique, today, store, appointments, req, result, before>>

\* line 315: the update of calendar_link; an exception skips line 318 too
BookUpdateLink(s, oks) ==
    /\ pc[s] = "book_update_link"
    /\ \E ok \in oks :
        IF ok
        THEN /\ store' = update_calendar_link(store, frame[s].appointment.id, frame[s].data.htmlLink)
             /\ frame' = [frame EXCEPT ![s].appointment.calendar_link = frame[s].data.htmlLink]
             /\ pc' = [pc EXCEPT ![s] = "book_update_event"]
             /\ log' = [log EXCEPT ![s] = Append(@, "update_link")]
        ELSE /\ pc' = [pc EXCEPT ![s] = "book_reload2"]
             /\ log' = [log EXCEPT ![s] = Append(@, "update_link_failed")]
             /\ UNCHANGED <<store, frame>>
    /\ actor' = s
    /\ UNCHANGED <<slot_unique, today, events, next_event, appointments, req, result, before>>

\* line 318: the update of calendar_event_id
BookUpdateEvent(s, oks) ==
    /\ pc[s] = "book_update_event"
    /\ \E ok \in oks :
        IF ok
        THEN /\ store' = update_calendar_event_id(store, frame[s].appointment.id, frame[s].data.eventId)
             /\ frame' = [frame EXCEPT ![s].appointment.calendar_event_id = frame[s].data.eventId]
             /\ log' = [log EXCEPT ![s] = Append(@, "update_event_id")]
        ELSE /\ log' = [log EXCEPT ![s] = Append(@, "update_event_id_failed")]
             /\ UNCHANGED <<store, frame>>
    /\ pc' = [pc EXCEPT ![s] = "book_reload2"]
    /\ actor' = s
    /\ UNCHANGED <<slot_unique, today, events, next_event, appointments, req, result, before>>

\* lines 330-341: reload the cache and report
BookReturn(s, oks) ==
    /\ pc[s] = "book_reload2"
    /\ \E ok \in oks :
        /\ appointments' = [appointments EXCEPT ![s] = _load_appointments_from_db(store, ok)]
        /\ log' = [log EXCEPT ![s] = Append(@, IF ok THEN "select_all" ELSE "select_all_failed")]
    /\ result' = [result EXCEPT ![s] = confirmed(frame[s].appointment)]
    /\ frame' = [frame EXCEPT ![s] = NoFrame]
    /\ pc' = [pc EXCEPT ![s] = "returned"]
    /\ actor' = s
    /\ UNCHANGED <<slot_unique, today, store, events, next_event, req, before>>

(***************************************************************************)
(* cancel_appointment                                                      *)
(***************************************************************************)
cancelled(appt) ==
    Result("cancel_ok", appt.id, appt.patient_name, appt.city, appt.date, appt.slot,
           None, None, <<>>)

\* a slip: an id that finds nothing falls back to the patient and the date
find_appointment_with_fallback(rows, id, patient_name, date) ==
    IF id # "" /\ _find_appointment_db_by_id(rows, id) # NoRow
    THEN _find_appointment_db_by_id(rows, id)
    ELSE _find_appointment_db_by_patient_and_date(rows, patient_name, date)

\* lines 397-401: by id when an id is given, else by patient and date
find_appointment(rows, id, patient_name, date) ==
    IF id # "" THEN _find_appointment_db_by_id(rows, id)
    ELSE _find_appointment_db_by_patient_and_date(rows, patient_name, date)

\* lines 384-404: the arguments, then the lookup
Cancel(s, appointment_id_in, patient_name_in, date_in, oks) ==
    /\ pc[s] = "idle"
    /\ req' = [req EXCEPT ![s] = Req("cancel_appointment", patient_name_in, None, NoDay, None, None,
                                     appointment_id_in, date_in)]
    /\ before' = [before EXCEPT ![s] = Snapshot(store, events)]
    /\ actor' = s
    /\ LET id == upper(strip(appointment_id_in))
           patient_name == lower(strip(patient_name_in))
           date == [date_in EXCEPT !.w = strip(@)]
       IN  IF id = "" /\ ~(patient_name # "" /\ date # NoDay)
           THEN /\ result' = [result EXCEPT ![s] = Msg("cancel_missing_input")]
                /\ log' = [log EXCEPT ![s] = <<>>]
                /\ pc' = [pc EXCEPT ![s] = "returned"]
                /\ UNCHANGED frame
           ELSE \E ok \in oks :
                LET found == IF ok THEN find_appointment(store, id, patient_name, date) ELSE NoRow
                    call == (IF id # "" THEN "select_by_id" ELSE "select_by_patient_and_date")
                                \o (IF ok THEN "" ELSE "_failed")
                IN  /\ log' = [log EXCEPT ![s] = <<call>>]
                    /\ IF found = NoRow
                       THEN /\ result' = [result EXCEPT ![s] = Msg("cancel_not_found")]
                            /\ pc' = [pc EXCEPT ![s] = "returned"]
                            /\ UNCHANGED frame
                       ELSE /\ result' = [result EXCEPT ![s] = Msg("running")]
                            /\ frame' = [frame EXCEPT ![s] = Frame(found, NoData, FALSE)]
                            /\ pc' = [pc EXCEPT ![s] =
                                        IF found.calendar_event_id # None
                                        THEN "cancel_post" ELSE "cancel_delete"]
    /\ UNCHANGED <<slot_unique, today, store, events, next_event, appointments>>

DeleteFailures == {"exception", "non_2xx"}

\* a slip: a failed delete-event call ends the cancellation with an error
CancelPost_blocking(s, failures) ==
    /\ pc[s] = "cancel_post"
    /\ \/ /\ frame[s].appointment.calendar_event_id \in events
          /\ events' = events \ {frame[s].appointment.calendar_event_id}
          /\ log' = [log EXCEPT ![s] = Append(@, "delete_event")]
          /\ pc' = [pc EXCEPT ![s] = "cancel_delete"]
          /\ UNCHANGED <<result, frame>>
       \/ /\ \E failure \in failures :
                log' = [log EXCEPT ![s] = Append(@, "delete_event_" \o failure)]
          /\ pc' = [pc EXCEPT ![s] = "returned"]
          /\ result' = [result EXCEPT ![s] = Msg("cancel_calendar_failed")]
          /\ frame' = [frame EXCEPT ![s] = NoFrame]
          /\ UNCHANGED events
    /\ actor' = s
    /\ UNCHANGED <<slot_unique, today, store, next_event, appointments, req, before>>

\* a slip: the event is not asked to be deleted
CancelPost_skipped(s, failures) ==
    /\ pc[s] = "cancel_post"
    /\ log' = [log EXCEPT ![s] = Append(@, "delete_event")]
    /\ pc' = [pc EXCEPT ![s] = "cancel_delete"]
    /\ actor' = s
    /\ UNCHANGED <<slot_unique, today, store, events, next_event, appointments, frame, req,
                   result, before>>

\* lines 409-418: requests.post(.../delete-event), served by delete_event
CancelPost(s, failures) ==
    /\ pc[s] = "cancel_post"
    /\ \/ /\ frame[s].appointment.calendar_event_id \in events
          /\ events' = events \ {frame[s].appointment.calendar_event_id}
          /\ log' = [log EXCEPT ![s] = Append(@, "delete_event")]
       \/ /\ \E failure \in failures :
                log' = [log EXCEPT ![s] = Append(@, "delete_event_" \o failure)]
          /\ UNCHANGED events
    /\ pc' = [pc EXCEPT ![s] = "cancel_delete"]
    /\ actor' = s
    /\ UNCHANGED <<slot_unique, today, store, next_event, appointments, frame, req, result, before>>

\* line 421: delete the row
CancelDelete(s, oks) ==
    /\ pc[s] = "cancel_delete"
    /\ \E ok \in oks :
        IF ok
        THEN /\ store' = _delete_appointment_db(store, frame[s].appointment.id)
             /\ frame' = [frame EXCEPT ![s].deleted = TRUE]
             /\ log' = [log EXCEPT ![s] = Append(@, "delete")]
        ELSE /\ log' = [log EXCEPT ![s] = Append(@, "delete_failed")]
             /\ UNCHANGED <<store, frame>>
    /\ pc' = [pc EXCEPT ![s] = "cancel_reload"]
    /\ actor' = s
    /\ UNCHANGED <<slot_unique, today, events, next_event, appointments, req, result, before>>

\* a slip: the outcome of the row delete is not looked at
CancelReturn_unchecked(s, oks) ==
    /\ pc[s] = "cancel_reload"
    /\ \E ok \in oks :
        /\ appointments' = [appointments EXCEPT ![s] = _load_appointments_from_db(store, ok)]
        /\ log' = [log EXCEPT ![s] = Append(@, IF ok THEN "select_all" ELSE "select_all_failed")]
    /\ result' = [result EXCEPT ![s] = cancelled(frame[s].appointment)]
    /\ frame' = [frame EXCEPT ![s] = NoFrame]
    /\ pc' = [pc EXCEPT ![s] = "returned"]
    /\ actor' = s
    /\ UNCHANGED <<slot_unique, today, store, events, next_event, req, before>>

\* lines 423-435: refresh the cache and report
CancelReturn(s, oks) ==
    /\ pc[s] = "cancel_reload"
    /\ \E ok \in oks :
        /\ appointments' = [appointments EXCEPT ![s] = _load_appointments_from_db(store, ok)]
        /\ log' = [log EXCEPT ![s] = Append(@, IF ok THEN "select_all" ELSE "select_all_failed")]
    /\ result' = [result EXCEPT ![s] =
                    IF frame[s].deleted THEN cancelled(frame[s].appointment)
                    ELSE Msg("cancel_delete_failed")]
    /\ frame' = [frame EXCEPT ![s] = NoFrame]
    /\ pc' = [pc EXCEPT ![s] = "returned"]
    /\ actor' = s
    /\ UNCHANGED <<slot_unique, today, store, events, next_event, req, before>>

(***************************************************************************)
(* Specifications.                                                         *)
(***************************************************************************)
Step(s, book_inputs, check_inputs, cancel_inputs, create_failures, delete_failures, oks, supply) ==
    \/ Construct(s, oks)
    \/ \E a \in check_inputs : CheckAvailability(s, a.city, a.day)
    \/ \E a \in book_inputs : Book(s, a.patient_name, a.city, a.day, a.slot, a.notes, oks)
    \/ BookReload(s, oks)
    \/ BookPost(s, create_failures, supply)
    \/ BookUpdateLink(s, oks)
    \/ BookUpdateEvent(s, oks)
    \/ BookReturn(s, oks)
    \/ \E a \in cancel_inputs :
            Cancel(s, a.appointment_id, a.patient_name, a.date, oks)
    \/ CancelPost(s, delete_failures)
    \/ CancelDelete(s, oks)
    \/ CancelReturn(s, oks)
    \/ Reply(s)

\* two sessions, the steps of their calls interleaved, on a few requests
DuoBookInputs ==
    {BookArgs("Ali", "sialkot", Iso(2025, 11, 10), "04:00 PM - 05:00 PM")}

DuoCheckInputs == {CheckArgs("sialkot", Word("monday"))}

DuoCancelInputs == {CancelArgs("APT1001", "", NoDay)}

Next ==
    \E s \in Sessions :
        Step(s, DuoBookInputs, DuoCheckInputs, DuoCancelInputs, {"non_2xx"}, {"exception"},
             BOOLEAN, MaxEvents)

Spec == Init /\ [][Next]_vars

\* one session, its calls in sequence
NextSolo ==
    Step(1, BookInputs, CheckInputs, CancelInputs, CreateFailures, DeleteFailures,
         BOOLEAN, MaxEvents)

SpecSolo == Init /\ [][NextSolo]_vars

\* one session, its calls in sequence, no store call and no calendar call
\* failing
NextCalm ==
    Step(1, BookInputs, CheckInputs, CancelInputs, {}, {}, {TRUE}, MaxCalmEvents)

SpecCalm == Init /\ [][NextCalm]_vars

\* the parsers and check_availability on their own: every reference date of
\* three weeks (one across a year's end, one across a leap day), every
\* weekday, every canonical slot
RefDates ==
    {add_days(first, i) :
        first \in {WindowStart, Date(2027, 12, 27), Date(2028, 2, 24)}, i \in 0..6}

PureDayInputs ==
    {Word(w) : w \in Range(WeekdayNames) \cup {"Sunday", " saturday", "tomorrow", ""}}
    \cup {Iso(2028, 2, 29), Iso(2027, 2, 29), DayStr("d b Y", 2025, 11, 10, ""),
          DayStr("B d, Y", 2025, 11, 10, "")}

PureSlotInputs ==
    Range(time_slots)
    \cup {"10:00 AM - 11:00 AM ", "4:00 PM - 5:00 PM", "04:00 PM-05:00 PM",
          "04:00 pm - 05:00 pm", "04:30 PM - 05:30 PM", "4 PM", "16:00", ""}

PureCheckInputs ==
    {CheckArgs(city, Word(w)) :
        city \in CityInputs, w \in Range(WeekdayNames) \cup {"Sunday", "tomorrow"}}

InitPure ==
    /\ slot_unique = FALSE
    /\ today \in RefDates
    /\ store = <<>>
    /\ events = {}
    /\ next_event = 1
    /\ appointments = [s \in Sessions |-> <<>>]
    /\ pc = [s \in Sessions |-> "idle"]
    /\ frame = [s \in Sessions |-> NoFrame]
    /\ req = [s \in Sessions |-> NoReq]
    /\ result = [s \in Sessions |-> Msg(None)]
    /\ log = [s \in Sessions |-> <<>>]
    /\ before = [s \in Sessions |-> NoSnapshot]
    /\ actor = 1

NextPure ==
    \/ \E day_str \in PureDayInputs : ParseDayToDate(1, day_str)
    \/ \E slot_str \in PureSlotInputs : ParseSlotTimes(1, slot_str)
    \/ \E a \in PureCheckInputs : CheckAvailability(1, a.city, a.day)
    \/ Reply(1)

SpecPure == InitPure /\ [][NextPure]_vars

\* two sessions on the shared table, each asking for a slot of its own, the
\* store reachable throughout
SharedBookInputs ==
    [s \in Sessions |->
        {BookArgs(IF s = 1 THEN "Ali" ELSE "Sara", "sialkot", Iso(2025, 11, 10),
                  IF s = 1 THEN "04:00 PM - 05:00 PM" ELSE "10:00 AM - 11:00 AM")}]

NextShared ==
    \E s \in Sessions :
        Step(s, SharedBookInputs[s], DuoCheckInputs, DuoCancelInputs, {"non_2xx"}, {"exception"}, {TRUE}, MaxEvents)

SpecShared == Init /\ [][NextShared]_vars

(***************************************************************************)
(* What the claims speak of.                                               *)
(***************************************************************************)
\* session s has just returned from a call of op
Returns(s, op) == pc[s] = "returned" /\ actor = s /\ req[s].op = op

Triple(r) == <<r.city, r.date, r.slot>>

KnownBranch(s) == strip(lower(req[s].city)) \in {"sialkot", "lahore"}

\* the date the request's day denotes, NoDate when it denotes none
RequestedDate(s) == parse_day_to_date([req[s].day EXCEPT !.w = strip(@)], today)

\* the request passes every check of book_appointment
ValidRequest(s) == book_validate(req[s].city, req[s].day, req[s].slot, today).kind = "ok"

\* the (branch, date, slot) a valid request asks for, as rows hold it
RequestedTriple(s) ==
    <<title(strip(lower(req[s].city))), isoformat(RequestedDate(s)), strip(req[s].slot)>>

Calls(s) == Range(log[s])

CreateEventFailed(s) == \E f \in CreateFailures : ("create_event_" \o f) \in Calls(s)

DeleteEventFailed(s) == \E f \in DeleteFailures : ("delete_event_" \o f) \in Calls(s)

Untouched(s) == store = before[s].store /\ events = before[s].events

(***************************************************************************)
(* C1. No double-booking: in every reachable state no two rows of the      *)
(* table have the same branch, the same date and the same slot.            *)
(***************************************************************************)
C1_NoDoubleBooking ==
    \A i, j \in DOMAIN store : i # j => Triple(store[i]) # Triple(store[j])

(***************************************************************************)
(* C2. A valid booking request for a (branch, date, slot) that is already  *)
(* in the table returns "slot already booked" and adds no row (the store   *)
(* being reachable).                                                       *)
(***************************************************************************)
C2_SecondBookingRejected ==
    \A s \in Sessions :
        ( /\ Returns(s, "book_appointment")
          /\ ValidRequest(s)
          /\ "insert_failed" \notin Calls(s)
          /\ \E i \in DOMAIN before[s].store :
                Triple(before[s].store[i]) = RequestedTriple(s) )
        => /\ result[s].kind = "book_slot_already_booked"
           /\ store = before[s].store

(***************************************************************************)
(* C3. A booking whose insert succeeded is reported as confirmed whatever  *)
(* the create-event call did, its row is in the table, and the row's       *)
(* calendar fields are null when the create-event call failed.             *)
(***************************************************************************)
C3_CalendarFailureNeverBlocks ==
    \A s \in Sessions :
        (Returns(s, "book_appointment") /\ "insert" \in Calls(s))
        => /\ result[s].kind = "book_confirmed"
           /\ \E i \in DOMAIN store :
                /\ store[i].id = result[s].id
                /\ store[i].patient_name = req[s].patient_name
                /\ Triple(store[i]) = RequestedTriple(s)
                /\ CreateEventFailed(s) =>
                        /\ store[i].calendar_event_id = None
                        /\ store[i].calendar_link = None

C3_Witness ==
    \E s \in Sessions :
        /\ Returns(s, "book_appointment")
        /\ result[s].kind = "book_confirmed"
        /\ "create_event_malformed_body" \in Calls(s)
        /\ \E i \in DOMAIN store : store[i].id = result[s].id

(***************************************************************************)
(* C4. A booking whose insert failed returns the failed-to-save message,   *)
(* leaves the table and the calendar as they were and makes no other call; *)
(* a booking is reported as confirmed only when its insert succeeded.      *)
(***************************************************************************)
C4_PersistenceFailureTerminal ==
    \A s \in Sessions :
        Returns(s, "book_appointment")
        => /\ (Calls(s) \cap {"insert_failed", "insert_rejected"} # {})
                => /\ result[s].kind = "book_failed_to_save"
                   /\ Len(log[s]) = 1
                   /\ Untouched(s)
           /\ result[s].kind = "book_confirmed"
                => /\ log[s] # <<>>
                   /\ log[s][1] = "insert"
                   /\ Len(store) = Len(before[s].store) + 1

C4_Witness ==
    \E s \in Sessions :
        /\ Returns(s, "book_appointment")
        /\ log[s] = <<"insert_failed">>
        /\ result[s].kind = "book_failed_to_save"

(***************************************************************************)
(* C5. Cancelling a stored appointment that carries a calendar event id,   *)
(* when the delete-event call fails: the row delete is still attempted,    *)
(* and when the store carries it out the row is gone and the cancellation  *)
(* is reported as successful.                                              *)
(***************************************************************************)
C5_CalendarFailureNeverBlocksCancel ==
    \A s \in Sessions :
        (Returns(s, "cancel_appointment") /\ DeleteEventFailed(s))
        => /\ Calls(s) \cap {"delete", "delete_failed"} # {}
           /\ "delete" \in Calls(s)
                => /\ result[s].kind = "cancel_ok"
                   /\ \E i \in DOMAIN before[s].store :
                        /\ before[s].store[i].id = result[s].id
                        /\ before[s].store[i].calendar_event_id # None
                   /\ \A i \in DOMAIN store : store[i].id # result[s].id

C5_Witness ==
    \E s \in Sessions :
        /\ Returns(s, "cancel_appointment")
        /\ "delete_event_exception" \in Calls(s)
        /\ result[s].kind = "cancel_ok"
        /\ Len(store) < Len(before[s].store)

(***************************************************************************)
(* C6. cancel_appointment with an id that no row has returns not-found,    *)
(* makes no calendar call and leaves the table as it was, also when the    *)
(* patient name and date passed with the id match a row.                   *)
(***************************************************************************)
GivenId(s) == upper(strip(req[s].appointment_id))

C6_UnknownIdNotFound ==
    \A s \in Sessions :
        ( /\ Returns(s, "cancel_appointment")
          /\ GivenId(s) # ""
          /\ \A i \in DOMAIN before[s].store : before[s].store[i].id # GivenId(s) )
        => /\ result[s].kind = "cancel_not_found"
           /\ log[s] \in {<<"select_by_id">>, <<"select_by_id_failed">>}
           /\ Untouched(s)

C6_Witness ==
    \E s \in Sessions :
        /\ Returns(s, "cancel_appointment")
        /\ req[s].appointment_id = "APT9999"
        /\ result[s].kind = "cancel_not_found"
        /\ log[s] = <<"select_by_id">>
        /\ \E i \in DOMAIN store :
            /\ lower(store[i].patient_name) = lower(req[s].patient_name)
            /\ store[i].date = req[s].date

(***************************************************************************)
(* C7. The availability answer for an open (branch, day) lists exactly the *)
(* canonical slots that no row of that branch and date holds, in canonical *)
(* order.                                                                  *)
(***************************************************************************)
FreeSlots(rows, city, date) ==
    LET free(slot) ==
            \A i \in DOMAIN rows :
                ~(rows[i].city = city /\ rows[i].date = date /\ rows[i].slot = slot)
    IN  SelectSeq(time_slots, free)

C7_AvailabilitySubtractsBookings ==
    \A s \in Sessions :
        (Returns(s, "check_availability") /\ result[s].kind = "avail_available")
        => result[s].slots =
                FreeSlots(store, result[s].city,
                          isoformat(next_weekday_date(weekdays(day_text(req[s].day)), today)))

(***************************************************************************)
(* C8. A booking request whose day resolves to a Sunday, given as the      *)
(* weekday name or as a calendar date, makes no store call and no calendar *)
(* call and leaves the table as it was; for a known branch the answer is   *)
(* the closed-on-Sunday message.                                           *)
(***************************************************************************)
ResolvesToSunday(s) == RequestedDate(s) # NoDate /\ weekday(RequestedDate(s)) = 6

C8_SundayNeverPersists ==
    \A s \in Sessions :
        (Returns(s, "book_appointment") /\ ResolvesToSunday(s))
        => /\ log[s] = <<>>
           /\ Untouched(s)
           /\ KnownBranch(s) => result[s].kind = "book_sunday_leave"

C8_Witness ==
    \E s \in Sessions :
        /\ Returns(s, "book_appointment")
        /\ req[s].day = Iso(2025, 11, 9)
        /\ result[s].kind = "book_sunday_leave"

(***************************************************************************)
(* C9. A booking request for one branch on a date whose weekday is the     *)
(* other branch's returns the not-available message that names the other   *)
(* branch, makes no store call and no calendar call and leaves the table   *)
(* as it was.                                                              *)
(***************************************************************************)
OtherBranch(city) == CHOOSE other \in {"sialkot", "lahore"} : other # city

BranchDays ==
    [sialkot |-> {0, 1, 2}, lahore |-> {3, 4, 5}]

C9_OtherBranchDay ==
    \A s \in Sessions :
        ( /\ Returns(s, "book_appointment")
          /\ KnownBranch(s)
          /\ RequestedDate(s) # NoDate
          /\ weekday(RequestedDate(s)) \in BranchDays[OtherBranch(strip(lower(req[s].city)))] )
        => /\ result[s].kind = "book_other_branch"
           /\ result[s].city = title(strip(lower(req[s].city)))
           /\ result[s].alternate = title(OtherBranch(strip(lower(req[s].city))))
           /\ log[s] = <<>>
           /\ Untouched(s)

C9_Witness ==
    \E s \in Sessions :
        /\ Returns(s, "book_appointment")
        /\ req[s].city = "sialkot"
        /\ req[s].day = Iso(2025, 11, 8)
        /\ result[s].kind = "book_other_branch"
        /\ result[s].alternate = "Lahore"

(***************************************************************************)
(* C10. An insert that the store rejects for a uniqueness violation is     *)
(* reported as "slot already booked".                                      *)
(***************************************************************************)
C10_UniquenessViolationIsConflict ==
    \A s \in Sessions :
        (Returns(s, "book_appointment") /\ log[s] = <<"insert_rejected">>)
        => result[s].kind = "book_slot_already_booked"


(***************************************************************************)
(* C11. The id book_appointment generates for a new appointment is the id  *)
(* of no row the table holds when the call is made.                        *)
(***************************************************************************)
\* the id of the appointment dict the call built: the confirmed id, or, the
\* cache being as it was after a failed insert, the id built from the cache
GeneratedId(s) ==
    IF "insert" \in Calls(s) THEN result[s].id ELSE apt_id(appointments[s])

C11_FreshId ==
    \A s \in Sessions :
        (Returns(s, "book_appointment") /\ log[s] # <<>>)
        => \A i \in DOMAIN before[s].store : before[s].store[i].id # GeneratedId(s)


(***************************************************************************)
(* C12. Schedule totality: each of the seven weekdays is a day of exactly  *)
(* one of the Sialkot branch, the Lahore branch and the holiday; the two   *)
(* branches' days are disjoint and, with Sunday, are all seven weekdays.   *)
(* check_availability, asked for a known branch and a weekday, answers     *)
(* accordingly: closed on the holiday, the slots on a day of the branch,   *)
(* the other branch on a day of the other branch.                          *)
(***************************************************************************)
Holiday == "sunday"

Applies(d) ==
    {b \in DOMAIN schedule : d \in schedule[b]} \cup (IF d = Holiday THEN {"holiday"} ELSE {})

C12_ScheduleTotality ==
    /\ DOMAIN schedule = {"sialkot", "lahore"}
    /\ \A d \in Range(WeekdayNames) : Cardinality(Applies(d)) = 1
    /\ schedule["sialkot"] \cap schedule["lahore"] = {}
    /\ schedule["sialkot"] \cup schedule["lahore"] \cup {Holiday} = Range(WeekdayNames)
    /\ \A s \in Sessions :
        ( /\ Returns(s, "check_availability")
          /\ KnownBranch(s)
          /\ day_text(req[s].day) \in Range(WeekdayNames) )
        => LET d == day_text(req[s].day)
               b == strip(lower(req[s].city))
           IN  /\ result[s].kind \in {"avail_sunday_leave", "avail_available", "avail_other_branch"}
               /\ result[s].kind = "avail_sunday_leave" <=> Applies(d) = {"holiday"}
               /\ result[s].kind = "avail_available" <=> Applies(d) = {b}
               /\ result[s].kind = "avail_other_branch" <=> Applies(d) = {OtherBranch(b)}
               /\ result[s].kind = "avail_other_branch"
                    => result[s].alternate = title(OtherBranch(b))

C12_Witness ==
    \E s \in Sessions :
        /\ Returns(s, "check_availability")
        /\ req[s].city = "Lahore "
        /\ req[s].day = Word("wednesday")
        /\ result[s].kind = "avail_other_branch"
        /\ result[s].alternate = "Sialkot"


(***************************************************************************)
(* C13. Slot round trip: parse_slot_times on the text of a canonical slot  *)
(* gives a (start, end) pair, and the canonical formatter on that pair     *)
(* gives the same text back.  The formatter is the one the canonical       *)
(* texts are written in: "%I:%M %p" for each end, " - " between them.      *)
(***************************************************************************)
strftime_I_M_p(t) ==
    LET hour == t \div 60
        minute == t % 60
        hour12 == IF hour % 12 = 0 THEN 12 ELSE hour % 12
    IN  pad2(hour12) \o ":" \o pad2(minute) \o " " \o (IF hour < 12 THEN "AM" ELSE "PM")

format_slot(pair) == strftime_I_M_p(pair[1]) \o " - " \o strftime_I_M_p(pair[2])

C13_SlotRoundTrip ==
    \A s \in Sessions :
        (Returns(s, "parse_slot_times") /\ req[s].slot \in Range(time_slots))
        => /\ result[s].kind = "times"
           /\ Len(result[s].slots) = 2
           /\ format_slot(result[s].slots) = req[s].slot
           /\ parse_slot_times(format_slot(result[s].slots)) = result[s].slots

C13_Witness ==
    \E s \in Sessions :
        /\ Returns(s, "parse_slot_times")
        /\ req[s].slot = "12:00 PM - 01:00 PM"
        /\ result[s].slots = <<720, 780>>
        /\ format_slot(result[s].slots) = "12:00 PM - 01:00 PM"


(***************************************************************************)
(* C14. A bare weekday name resolves, for every reference date and every   *)
(* weekday, to the first date on or after the reference date that falls on *)
(* that weekday: 0 to 6 days ahead, and the reference date itself when it  *)
(* falls on that weekday.                                                  *)
(***************************************************************************)
WeekdayWord(s) ==
    /\ req[s].day.fmt = "word"
    /\ lower(strip(req[s].day.w)) \in Range(WeekdayNames)

C14_WeekdayOnOrAfter ==
    \A s \in Sessions :
        (Returns(s, "parse_day_to_date") /\ WeekdayWord(s))
        => /\ result[s].kind = "date"
           /\ LET resolved == Date(result[s].date.y, result[s].date.m, result[s].date.d)
                  target == weekdays(lower(strip(req[s].day.w)))
                  offset == toordinal(resolved) - toordinal(today)
              IN  /\ valid_ymd(resolved.y, resolved.m, resolved.d)
                  /\ offset \in 0..6
                  /\ weekday(resolved) = target
                  /\ weekday(today) = target => resolved = today
                  /\ \A k \in 0..6 : k < offset => weekday(add_days(today, k)) # target

C14_Witness ==
    \E s \in Sessions :
        /\ Returns(s, "parse_day_to_date")
        /\ WeekdayWord(s)
        /\ weekday_name(today) = lower(strip(req[s].day.w))
        /\ result[s].date = isoformat(today)


(***************************************************************************)
(* C15. Slot validation in booking.  As claimed: by parsed value, a        *)
(* request that reaches the slot step is accepted there exactly when its   *)
(* slot input, a range or a single time taken as a one-hour block, parses  *)
(* to the (start, end) of a canonical slot.  As the code has it: by text,  *)
(* the request is accepted there exactly when the stripped slot input is   *)
(* one of the eight canonical texts; every other input is answered with    *)
(* the invalid-slot message that lists the canonical texts, and no store   *)
(* or calendar call is made.                                               *)
(***************************************************************************)
\* the request passes every check that comes before the slot check
ReachesSlotStep(s) ==
    book_validate(req[s].city, req[s].day, time_slots[1], today).kind = "ok"

SlotRejected(s) == result[s].kind \in {"book_invalid_slot", "book_invalid_slot_format"}

CanonicalPairs == {parse_slot_times(time_slots[i]) : i \in DOMAIN time_slots}

\* the single times of the spec's slot parser, each a one-hour block
single_time ==
    [text \in {"4 PM", "4:00 PM", "16:00"} |-> <<960, 1020>>]

\* the spec's slot parser: a range, or a single time
parseSlot(input) ==
    IF parse_slot_times(input) # <<>> THEN parse_slot_times(input)
    ELSE IF input \in DOMAIN single_time THEN single_time[input]
    ELSE <<>>

C15_SlotByValue ==
    \A s \in Sessions :
        (Returns(s, "book_appointment") /\ ReachesSlotStep(s))
        => (~SlotRejected(s) <=> parseSlot(strip(req[s].slot)) \in CanonicalPairs)

C15_SlotByText ==
    \A s \in Sessions :
        (Returns(s, "book_appointment") /\ ReachesSlotStep(s))
        => /\ ~SlotRejected(s) <=> strip(req[s].slot) \in Range(time_slots)
           /\ SlotRejected(s)
                => /\ result[s].kind = "book_invalid_slot"
                   /\ result[s].slots = time_slots
                   /\ log[s] = <<>>
                   /\ Untouched(s)

C15_Witness ==
    \E s \in Sessions :
        /\ Returns(s, "book_appointment")
        /\ ReachesSlotStep(s)
        /\ req[s].slot = "4:00 PM - 5:00 PM"
        /\ parse_slot_times(req[s].slot) \in CanonicalPairs
        /\ result[s].kind = "book_invalid_slot"


(***************************************************************************)
(* C16. Booking validations are applied in the order branch, date parse,   *)
(* weekday against the branch's schedule, slot, conflict, and the first    *)
(* that fails gives the reason: an unknown branch is always answered with  *)
(* the unsupported-branch message, whatever the day and the slot are; a    *)
(* known branch with a day that is not understood with that message; a     *)
(* known branch and a date with the closed or other-branch message; and a  *)
(* request that passes these three with none of these messages.            *)
(***************************************************************************)
C16_ValidationOrder ==
    \A s \in Sessions :
        Returns(s, "book_appointment")
        => LET early == {"book_unsupported_city", "book_day_not_understood",
                         "book_sunday_leave", "book_other_branch"}
               branch == strip(lower(req[s].city))
           IN  IF ~KnownBranch(s) THEN result[s].kind = "book_unsupported_city"
               ELSE IF RequestedDate(s) = NoDate
                    THEN result[s].kind = "book_day_not_understood"
               ELSE IF weekday_name(RequestedDate(s)) = Holiday
                    THEN result[s].kind = "book_sunday_leave"
               ELSE IF weekday_name(RequestedDate(s)) \notin schedule[branch]
                    THEN result[s].kind = "book_other_branch"
               ELSE result[s].kind \notin early


(***************************************************************************)
(* C17. Within one book_appointment call create-event is called at most    *)
(* once, and only after the insert succeeded: the call's first store call  *)
(* is the successful insert and the create-event call comes after it; a    *)
(* booking that returns anything but the confirmation has made no calendar *)
(* call and has left the calendar as it was.                               *)
(***************************************************************************)
CreateCalls == {"create_event"} \cup {"create_event_" \o f : f \in CreateFailures}

C17_CreateEventOnceAfterInsert ==
    \A s \in Sessions :
        req[s].op = "book_appointment"
        => LET posts == {i \in DOMAIN log[s] : log[s][i] \in CreateCalls}
           IN  /\ Cardinality(posts) <= 1
               /\ \A i \in posts : i > 1 /\ log[s][1] = "insert"
               /\ (pc[s] = "returned" /\ result[s].kind # "book_confirmed")
                    => /\ posts = {}
                       /\ events = before[s].events
               /\ Cardinality(events) <= Cardinality(before[s].events) + 1

C17_Witness ==
    \E s \in Sessions :
        /\ Returns(s, "book_appointment")
        /\ result[s].kind = "book_confirmed"
        /\ log[s][1] = "insert"
        /\ Cardinality({i \in DOMAIN log[s] : log[s][i] \in CreateCalls}) = 1
        /\ "create_event_exception" \in Calls(s)


(***************************************************************************)
(* C18. The result of cancelling a found appointment is the row delete's:  *)
(* success is reported exactly when the store delete succeeded, and the    *)
(* row is then gone; failure is reported exactly when the store delete     *)
(* failed, and the row is then still in the table; the outcome of the      *)
(* calendar call has no part in it.                                        *)
(***************************************************************************)
\* the row the lookup of the call finds in the table as the call found it
FoundRow(s) ==
    find_appointment(before[s].store, GivenId(s), lower(strip(req[s].patient_name)),
                     [req[s].date EXCEPT !.w = strip(@)])

LookupDone(s) ==
    /\ (GivenId(s) # "" \/ (strip(req[s].patient_name) # "" /\ req[s].date # NoDay))
    /\ Calls(s) \cap {"select_by_id_failed", "select_by_patient_and_date_failed"} = {}

C18_DeleteDecidesResult ==
    \A s \in Sessions :
        (Returns(s, "cancel_appointment") /\ LookupDone(s) /\ FoundRow(s) # NoRow)
        => /\ Cardinality(Calls(s) \cap {"delete", "delete_failed"}) = 1
           /\ result[s].kind \in {"cancel_ok", "cancel_delete_failed"}
           /\ result[s].kind = "cancel_ok" <=> "delete" \in Calls(s)
           /\ result[s].kind = "cancel_delete_failed" <=> "delete_failed" \in Calls(s)
           /\ "delete" \in Calls(s)
                => /\ result[s].id = FoundRow(s).id
                   /\ \A i \in DOMAIN store : store[i].id # FoundRow(s).id
                   /\ Len(store) = Len(before[s].store) - 1
           /\ "delete_failed" \in Calls(s) => store = before[s].store

C18_Witness ==
    \E s \in Sessions :
        /\ Returns(s, "cancel_appointment")
        /\ FoundRow(s) # NoRow
        /\ "delete_event" \in Calls(s)
        /\ "delete_failed" \in Calls(s)
        /\ result[s].kind = "cancel_delete_failed"
        /\ \E i \in DOMAIN store : store[i] = FoundRow(s)


(***************************************************************************)
(* C19. When the create-event call of a booking succeeded, the row of that *)
(* appointment, and no other row, ends up with calendar_event_id and       *)
(* calendar_link set to the values the calendar returned; before the call, *)
(* and when the call failed, both fields of the row are null.              *)
(***************************************************************************)
\* the id of the appointment the booking call of session s has inserted
BookedId(s) == IF pc[s] = "returned" THEN result[s].id ELSE frame[s].appointment.id

\* the event the calendar created during the call
CreatedEvents(s) == {n \in 1..MaxEvents + 1 : event_id(n) \in events \ before[s].events}

C19_CalendarFieldsFollowCreate ==
    \A s \in Sessions :
        (req[s].op = "book_appointment" /\ actor = s /\ "insert" \in Calls(s))
        => LET row == _find_appointment_db_by_id(store, BookedId(s))
           IN  /\ row # NoRow
               /\ "create_event" \notin Calls(s)
                    => /\ row.calendar_event_id = None
                       /\ row.calendar_link = None
               /\ (pc[s] = "returned" /\ "create_event" \in Calls(s))
                    => \E n \in CreatedEvents(s) :
                        /\ row.calendar_event_id = event_id(n)
                        /\ row.calendar_link = html_link(n)
               /\ \A i \in DOMAIN store :
                    store[i].id # BookedId(s) => \E j \in DOMAIN before[s].store :
                                                    store[i] = before[s].store[j]


(***************************************************************************)
(* C20. Store and calendar agree at rest: between the calls of a session   *)
(* whose store calls and calendar calls all succeed, the events in the     *)
(* calendar are exactly the calendar_event_id values of the rows of the    *)
(* table, and every row has a calendar_event_id.                           *)
(***************************************************************************)
AtRest == \A s \in Sessions : pc[s] \in {"idle", "returned"}

C20_StoreAndCalendarAgree ==
    AtRest
    => /\ events = {store[i].calendar_event_id : i \in DOMAIN store}
       /\ \A i \in DOMAIN store : store[i].calendar_event_id # None
       /\ \A i, j \in DOMAIN store :
            store[i].calendar_event_id = store[j].calendar_event_id => i = j

C20_Witness ==
    /\ AtRest
    /\ Returns(1, "book_appointment")
    /\ Len(store) = 2
    /\ Cardinality(events) = 2
    /\ event_id(2) \notin events
    /\ events = {store[i].calendar_event_id : i \in DOMAIN store}


(***************************************************************************)
(* C21. A cancellation that reports failure has no effect: when            *)
(* cancel_appointment returns the failed-to-delete message, the row it     *)
(* found is still in the table and the event the row's calendar_event_id   *)
(* names is still in the calendar; no row names an event that the call     *)
(* has deleted.                                                            *)
(***************************************************************************)
C21_FailedCancelHasNoEffect ==
    \A s \in Sessions :
        (Returns(s, "cancel_appointment") /\ result[s].kind = "cancel_delete_failed")
        => /\ FoundRow(s) # NoRow
           /\ \E i \in DOMAIN store : store[i].id = FoundRow(s).id
           /\ FoundRow(s).calendar_event_id # None
                => FoundRow(s).calendar_event_id \in events
           /\ \A i \in DOMAIN store :
                store[i].calendar_event_id \in before[s].events
                    => store[i].calendar_event_id \in events


(***************************************************************************)
(* C22. The engine does not take itself for the sole writer: with two      *)
(* sessions on the shared table, a valid booking request of one session    *)
(* for a (branch, date, slot) that no row holds is confirmed whenever the  *)
(* store is reachable, whatever the other session has booked and cancelled *)
(* for other slots since this session last loaded its cache.               *)
(***************************************************************************)
FreeTriple(s) ==
    \A i \in DOMAIN before[s].store : Triple(before[s].store[i]) # RequestedTriple(s)

C22_NotSoleWriter ==
    \A s \in Sessions :
        ( /\ Returns(s, "book_appointment")
          /\ ValidRequest(s)
          /\ FreeTriple(s)
          /\ "insert_failed" \notin Calls(s) )
        => /\ result[s].kind = "book_confirmed"
           /\ \E i \in DOMAIN store :
                store[i].id = result[s].id /\ Triple(store[i]) = RequestedTriple(s)

=============================================================================
